---- MODULE Spec2Model ----
(***************************************************************************)
(* Model of src/app/app.go: App.Run (startup), the upload handler and the  *)
(* import handler with the scratch directory (Config.Server.UploadPath)    *)
(* and the collection directories (Library.Paths) they work on, and the    *)
(* page, video and thumbnail handlers that read the catalog.               *)
(*                                                                         *)
(* Every request is served by its own goroutine (net/http), so the runs    *)
(* interleave at the granularity of one file-system call or one external   *)
(* process event.  Request-local computation is folded into the step that  *)
(* follows it.                                                             *)
(***************************************************************************)
EXTENDS Integers, Sequences, FiniteSets, TLC

\* ---------------------------------------------------------------- bounds
NumRuns == 2            \* requests served (concurrently or one after another)
MaxSizes == 1           \* configured Transcoder.Sizes profiles
MaxSeqSizes == 2        \* the same, for requests served one after another
MaxUploadSize == 2      \* Config.Server.MaxUploadSize, in model units
MaxContentLength == 3   \* largest Content-Length a remote server declares
MaxLibrary == 2         \* entries of Config.Library at startup
NumPlays == 2           \* page, video and thumbnail requests served
MaxEvents == 1          \* file-system change events delivered to the watcher

Runs == 1..NumRuns

\* ------------------------------------------------- names, paths and files
UploadPath == "uploads"
\* Directories a request may name as its target, and the sets of them a
\* configuration registers as collections: none, or the first.
LibraryDirs == {"lib1", "lib2"}
LibrarySets == {{}, {"lib1"}}
SizeSuffix == <<"720p", "480p", "360p", "240p">>
SizeSetsUpTo(n) == {{SizeSuffix[i] : i \in 1..k} : k \in 0..n}
SizeSets == SizeSetsUpTo(MaxSizes)

NoTok == <<0, 0>>
\* A file stem: text, then optionally "_", then optionally a random token.
Stem(base, sep, tok) == [base |-> base, sep |-> sep, tok |-> tok]
\* A client-supplied filename: leading directories, stem text, extension.
FileName(dir, base, ext) == [dir |-> dir, base |-> base, ext |-> ext]
EmptyFileName == FileName("", "", "")
FileNames == {EmptyFileName, FileName("clips/", "a", ".mkv")}

\* A path: directory, stem, "#<suffix>" part ("" for none), extension.
Path(dir, stem, q, ext) == [dir |-> dir, stem |-> stem, q |-> q, ext |-> ext]
\* A file: what it holds, the run that created or last truncated it, whether
\* its content is completely produced, the runs whose process writes to it.
File(kind, r, complete, writers) ==
    [kind |-> kind, owner |-> r, complete |-> complete, writers |-> writers]

Exists(f, p) == p \in DOMAIN f
Put(f, p, file) == [x \in (DOMAIN f) \cup {p} |-> IF x = p THEN file ELSE f[x]]
\* os.Remove: removing a missing file is an error the callers ignore.
Remove(f, p) == [x \in (DOMAIN f) \ {p} |-> f[x]]
\* os.Rename on an existing source: the destination is replaced.
Rename(f, src, dst) == IF src = dst THEN f ELSE Put(Remove(f, src), dst, f[src])
\* Opening for writing with truncation (os.Create, ffmpeg -y): an existing
\* file keeps its identity and its other writers, its content is gone.
Truncate(f, p, kind, r, writers) ==
    Put(f, p, File(kind, r, FALSE,
                   (IF Exists(f, p) THEN f[p].writers ELSE {}) \cup writers))
\* A process of run r ends: the file it has open (wherever it was renamed
\* to) is complete iff the process succeeded and nobody truncated it since.
EndWrite(f, r, ok) ==
    [x \in DOMAIN f |->
        IF r \in f[x].writers
        THEN [f[x] EXCEPT !.writers = @ \ {r}, !.complete = ok /\ f[x].owner = r]
        ELSE f[x]]

VARIABLES
    Library,   \* a.Library.Paths: registered path -> its configuration
    Config,    \* a.Config: Server.PreserveUploadFilename, Transcoder.Sizes
    fs,        \* the file system: path -> file
    run,       \* per request: position, locals, response written, history
    boot,      \* App.Run: position, entry at hand, error returned, watches
    Videos,    \* a.Library.Videos: video id -> entry
    Store,     \* a.Store: the view counters and whether the store works
    sync,      \* the change-event loop started by Run
    play       \* per page, video or thumbnail request: position, outcome

vars == <<Library, Config, fs, run, boot, Videos, Store, sync, play>>
\* What the upload and import handlers leave alone, what Run leaves alone,
\* and what the page, video and thumbnail handlers and the change-event
\* loop leave alone.
web == <<boot, Videos, Store, sync, play>>
served == <<run, Store, sync, play>>
ingest == <<Library, Config, run, boot>>

\* ------------------------------------------------------- request records
\* No process is running: no input is being read.
NoInput == Path("", Stem("", "", NoTok), "", "")
IdleRun ==
    [pc |-> "idle", kind |-> "none", target |-> "", filename |-> EmptyFileName,
     newFileName |-> Stem("", "", NoTok), nuuid |-> 0, cl |-> -1, size |-> 0,
     todo |-> {}, cur |-> "", input |-> NoInput, inputOk |-> FALSE,
     defers |-> <<>>, resp |-> <<>>, hist |-> <<>>]

Returned(r) == run[r].pc \in {"done", "panic"}
Active(r) == run[r].pc \notin {"idle", "done", "panic"}

\* shortuuid.New(): a token no other draw returns.
shortuuid(r, n) == <<r, n>>

Ev(what, res) == <<what, res>>
Did(r, what, res) == \E i \in 1..Len(run[r].hist) : run[r].hist[i] = Ev(what, res)
Tried(r, what) == \E i \in 1..Len(run[r].hist) : run[r].hist[i][1] = what


\* The handler returns: its locals are gone, its deferred calls are left.
Ret(rec) == [rec EXCEPT !.pc = IF rec.defers = <<>> THEN "done" ELSE "defer",
                        !.nuuid = 0, !.cur = "", !.input = NoInput,
                        !.inputOk = FALSE]
\* http.Error(...) followed by return.
Fail(rec, what, res) ==
    Ret([rec EXCEPT !.resp = Append(@, "error"), !.hist = Append(@, Ev(what, res))])
\* A step that succeeded and goes on at pc.
Go(rec, pc, what) == [rec EXCEPT !.pc = pc, !.hist = Append(@, Ev(what, "ok"))]
\* defer os.Remove(p)
Defer(rec, p) == [rec EXCEPT !.defers = Append(@, p)]

\* ------------------------------------------------- utils (not under src/)
\* utils.RunCmd(timeout, "ffmpeg", "-y", ..., "-i", in, ..., out) starts the
\* process: ffmpeg opens its input, then opens out for writing, truncating.
RunOutcomes == {"ok", "timeout", "exit"}
RunCmdStart(f, r, in, out, kind) ==
    IF Exists(f, in) THEN Truncate(f, out, kind, r, {r}) ELSE f
\* utils.RunCmd returns: the process exited, or was killed at the deadline.
RunCmdEnd(f, r, res) == EndWrite(f, r, res = "ok")
\* utils.Download(url, filename): writes the body to filename; a failed
\* transfer leaves what was written so far.
Download(f, r, out, kind, ok) == Put(f, out, File(kind, r, ok, {}))

\* ------------------------------------------------------ pure functions
\* basenameWithoutExtension (filepath.Base, then the extension cut off).
basenameWithoutExtension(filename) == Stem(filename.base, "", NoTok)
\* pathWithoutExtension: the path with its extension cut off.
pathWithoutExtension(p) == [p EXCEPT !.ext = ""]
\* fmt.Sprintf("%s.jpg", pathWithoutExtension(p))
JpgOf(p) == [pathWithoutExtension(p) EXCEPT !.ext = ".jpg"]
\* fmt.Sprintf("%s#%s.mp4", strings.TrimSuffix(p, filepath.Ext(p)), suffix)
ScaledOf(p, suffix) == [pathWithoutExtension(p) EXCEPT !.q = suffix, !.ext = ".mp4"]

\* preserveUploadFilenameIsEnabled(a, targetLibraryDir)
preserveUploadFilenameIsEnabled(target) ==
    Config.PreserveUploadFilename \/ Library[target].PreserveUploadFilename

\* fileExistsAtLocation(filename, location): <<exists, err>>; errs are the
\* locations where securejoin.SecureJoin or os.Stat fails otherwise than
\* with "does not exist".
fileExistsAtLocation(f, stem, location, errs) ==
    IF location \in errs THEN <<FALSE, TRUE>>
    ELSE <<Exists(f, Path(location, stem, "", ".mp4")), FALSE>>

\* fileExistsAtAnyLocation(filename, locations): the first location that
\* fails or holds the file decides.
RECURSIVE fileExistsAtAnyLocation(_, _, _, _)
fileExistsAtAnyLocation(f, stem, locations, errs) ==
    IF locations = <<>> THEN <<FALSE, FALSE>>
    ELSE LET here == fileExistsAtLocation(f, stem, Head(locations), errs)
         IN  IF here[2] THEN <<FALSE, TRUE>>
             ELSE IF here[1] THEN <<TRUE, FALSE>>
             ELSE fileExistsAtAnyLocation(f, stem, Tail(locations), errs)

\* newVideoFileName, lines 522-526: the first candidate.
FirstCandidate(r, filename) ==
    IF filename # EmptyFileName
    THEN basenameWithoutExtension(filename)
    ELSE Stem("", "", shortuuid(r, 1))
\* newVideoFileName, line 536: the next candidate after a collision.
NextCandidate(r, filename, n) ==
    [basenameWithoutExtension(filename) EXCEPT !.sep = "_", !.tok = shortuuid(r, n)]
\* newVideoFileName, lines 527-529: the loop goes on iff the check said
\* "exists" without an error.
LoopsAgain(res) == res[1] /\ ~res[2]
\* newVideoFileName, lines 539-542: the err tested after the loop is the
\* named result, which the loop's own err shadows and never sets: the
\* function returns the candidate whatever ended the loop.
ReturnsError(res) == FALSE

\* getSelectedTargetLibraryDir: the target must be a key of Library.Paths.
getSelectedTargetLibraryDir(target) == target \in DOMAIN Library

\* Paths of one upload run.
uploadedFile(r) ==
    Path(UploadPath, Stem("tube-upload-", "", <<r, 0>>), "", run[r].filename.ext)
transcodedVideoPath(r) == Path(UploadPath, run[r].newFileName, "", ".mp4")
newVideoPath(r) == Path(run[r].target, run[r].newFileName, "", ".mp4")
transcodedThumbnailPath(r) == JpgOf(transcodedVideoPath(r))
newThumbnailPath(r) == JpgOf(newVideoPath(r))

\* Requests are numbered in the order they arrive.
Arrives(r) == run[r].pc = "idle" => \A o \in 1..(r - 1) : run[o].pc # "idle"

\* --------------------------------------------------------- uploadHandler
\* The sizes of the payloads clients send, in model units: the largest
\* admitted one and the ones above it.
PayloadSizes == MaxUploadSize..MaxContentLength

\* Lines 240-263 up to the first existence check: the form is parsed
\* (ParseMultipartForm takes a memory buffer size, not a limit, and its
\* result is dropped), the target validated, the payload located, the first
\* candidate name built.
UploadBegin(r) ==
    /\ run[r].pc = "idle" /\ Arrives(r)
    /\ \E target \in LibraryDirs, hasFile \in BOOLEAN, filename \in FileNames,
          size \in PayloadSizes :
          LET rec == [run[r] EXCEPT !.kind = "upload", !.target = target,
                                    !.filename = filename, !.size = size]
          IN  run' = [run EXCEPT ![r] =
                  IF ~getSelectedTargetLibraryDir(target)
                  THEN Fail(rec, "validate", "invalid")
                  ELSE IF ~hasFile
                  THEN Fail(rec, "form", "nofile")
                  ELSE [Go(rec, "name", "validate") EXCEPT
                            !.newFileName = FirstCandidate(r, filename),
                            !.nuuid = IF filename = EmptyFileName THEN 1 ELSE 0]]
    /\ UNCHANGED <<Library, Config, fs, web>>

\* One turn of the loop of newVideoFileName: one call of
\* fileExistsAtAnyLocation on {target, UploadPath}.
UploadNameCheck(r) ==
    /\ run[r].pc = "name"
    /\ \E errs \in SUBSET {run[r].target, UploadPath} :
          LET res == fileExistsAtAnyLocation(fs, run[r].newFileName,
                                             <<run[r].target, UploadPath>>, errs)
              n == run[r].nuuid + 1
          IN  run' = [run EXCEPT ![r] =
                  IF LoopsAgain(res)
                  THEN [@ EXCEPT !.newFileName = NextCandidate(r, run[r].filename, n),
                                 !.nuuid = n]
                  ELSE IF ReturnsError(res)
                  THEN Fail(@, "name", "error")
                  ELSE Go(@, "stage", "name")]
    /\ UNCHANGED <<Library, Config, fs, web>>

\* copyFileFromFormToUploadDir: ioutil.TempFile, then io.Copy; the deferred
\* removal is registered only when both succeeded.
UploadStage(r) ==
    /\ run[r].pc = "stage"
    /\ \E res \in {"ok", "tempfile", "copy"} :
          /\ fs' = IF res = "tempfile" THEN fs
                   ELSE Put(fs, uploadedFile(r), File("source", r, res = "ok", {}))
          /\ run' = [run EXCEPT ![r] =
                  IF res = "ok" THEN Defer(Go(@, "create", "stage"), uploadedFile(r))
                  ELSE Fail(@, "stage", res)]
    /\ UNCHANGED <<Library, Config, web>>

\* getTranscodedPath, then os.Create(transcodedVideoPath), lines 276-289.
UploadCreate(r) ==
    /\ run[r].pc = "create"
    /\ \E res \in {"ok", "error"} :
          /\ fs' = IF res = "ok"
                   THEN Truncate(fs, transcodedVideoPath(r), "master", r, {})
                   ELSE fs
          /\ run' = [run EXCEPT ![r] =
                  IF res = "ok"
                  THEN Defer(Go(@, "transcode", "create"), transcodedVideoPath(r))
                  ELSE Fail(@, "create", res)]
    /\ UNCHANGED <<Library, Config, web>>

\* A utils.RunCmd call starts its process.
Spawn(r, what, in, out, kind, pc) ==
    /\ fs' = RunCmdStart(fs, r, in, out, kind)
    /\ run' = [run EXCEPT ![r] = [@ EXCEPT !.pc = pc, !.input = in,
                                           !.inputOk = Exists(fs, in),
                                           !.hist = Append(@, Ev("spawn", what))]]
    /\ UNCHANGED <<Library, Config, web>>

\* A utils.RunCmd call returns; on an error the handler answers with it
\* and returns, otherwise it goes on at pc.
Wait(r, what, pc) ==
    /\ \E res \in RunOutcomes :
          /\ res = "ok" => run[r].inputOk
          /\ fs' = RunCmdEnd(fs, r, res)
          /\ run' = [run EXCEPT ![r] =
                  IF res = "ok"
                  THEN [Go(@, pc, what) EXCEPT !.input = NoInput, !.inputOk = FALSE]
                  ELSE Fail(@, what, res)]
    /\ UNCHANGED <<Library, Config, web>>

\* createVideo, lines 308-316.
UploadTranscodeStart(r) ==
    /\ run[r].pc = "transcode"
    /\ Spawn(r, "transcode", uploadedFile(r), transcodedVideoPath(r), "master",
             "transcode_wait")

UploadTranscodeEnd(r) ==
    /\ run[r].pc = "transcode_wait"
    /\ Wait(r, "transcode", "thumbnail")

\* createThumbnail, lines 319-327.
UploadThumbnailStart(r) ==
    /\ run[r].pc = "thumbnail"
    /\ Spawn(r, "thumbnail", uploadedFile(r), transcodedThumbnailPath(r), "thumb",
             "thumbnail_wait")

\* Variant: the master is renamed first, the thumbnail rename is left out.
UploadThumbnailEndMasterFirst(r) ==
    /\ run[r].pc = "thumbnail_wait"
    /\ Wait(r, "thumbnail", "mvmaster")

UploadThumbnailEnd(r) ==
    /\ run[r].pc = "thumbnail_wait"
    /\ Wait(r, "thumbnail", "mvthumb")

\* os.Rename(src, dst) by run r: it fails when src is missing, and may fail
\* for reasons of its own; the handler answers with the error and returns.
Move(r, what, src, dst, next(_)) ==
    /\ \E ok \in BOOLEAN :
          /\ ok => Exists(fs, src)
          /\ fs' = IF ok THEN Rename(fs, src, dst) ELSE fs
          /\ run' = [run EXCEPT ![r] = IF ok THEN next(Go(@, @.pc, what))
                                       ELSE Fail(@, what, "rename")]
    /\ UNCHANGED <<Library, Config, web>>

\* The loop over Config.Transcoder.Sizes, and what follows it: with no size
\* left the success message is written and the handler returns.
NextSize(rec, pc) ==
    IF rec.todo = {}
    THEN Ret([rec EXCEPT !.resp = Append(@, "ok")])
    ELSE [rec EXCEPT !.pc = pc]
\* Line 333: the thumbnail goes first; the master is next.
UploadAfterThumbnail(rec) == [rec EXCEPT !.pc = "mvmaster"]
\* Variant: the sizes are not gone through.
UploadAfterMasterNoSizes(rec) == NextSize([rec EXCEPT !.todo = {}], "sizes")
\* Lines 340-349: with the master in place the sizes are gone through.
UploadAfterMaster(rec) == NextSize([rec EXCEPT !.todo = Config.Sizes], "sizes")
\* Lines 375-381: the next size, or the end of the handler.
UploadAfterScaled(rec) == NextSize(rec, "sizes")

\* os.Rename(transcodedThumbnailPath, newThumbnailPath), lines 333-338.
UploadMoveThumbnail(r) ==
    /\ run[r].pc = "mvthumb"
    /\ Move(r, "mvthumb", transcodedThumbnailPath(r), newThumbnailPath(r),
            UploadAfterThumbnail)

\* Variant: a failed rename of the master takes the thumbnail back out of
\* the collection.
UploadMoveMasterRollsBack(r) ==
    /\ run[r].pc = "mvmaster"
    /\ \E ok \in BOOLEAN :
          /\ ok => Exists(fs, transcodedVideoPath(r))
          /\ fs' = IF ok THEN Rename(fs, transcodedVideoPath(r), newVideoPath(r))
                   ELSE Remove(fs, newThumbnailPath(r))
          /\ run' = [run EXCEPT ![r] =
                  IF ok THEN UploadAfterMaster(Go(@, @.pc, "mvmaster"))
                  ELSE Fail(@, "mvmaster", "rename")]
    /\ UNCHANGED <<Library, Config, web>>

\* os.Rename(transcodedVideoFile.Name(), newVideoPath), lines 340-345.
UploadMoveMaster(r) ==
    /\ run[r].pc = "mvmaster"
    /\ Move(r, "mvmaster", transcodedVideoPath(r), newVideoPath(r), UploadAfterMaster)

\* createScaledVideo for one size of the map (Go ranges over a map in no
\* fixed order), lines 349-368.
scaledFileName(r, suffix) == ScaledOf(transcodedVideoPath(r), suffix)
targetFilename(r, suffix) == ScaledOf(newVideoPath(r), suffix)

UploadScaleStart(r) ==
    /\ run[r].pc = "sizes"
    /\ \E suffix \in run[r].todo :
          /\ fs' = RunCmdStart(fs, r, uploadedFile(r), scaledFileName(r, suffix),
                               "derivative")
          /\ run' = [run EXCEPT ![r] =
                  [@ EXCEPT !.pc = "scale_wait", !.cur = suffix,
                            !.todo = @ \ {suffix},
                            !.input = uploadedFile(r),
                            !.inputOk = Exists(fs, uploadedFile(r)),
                            !.hist = Append(@, Ev("spawn", "scale"))]]
    /\ UNCHANGED <<Library, Config, web>>

\* Variant: a failed derivative unwinds the publication (master and
\* thumbnail are removed again).
UploadScaleEndUnwinds(r) ==
    /\ run[r].pc = "scale_wait"
    /\ \E res \in RunOutcomes :
          /\ res = "ok" => run[r].inputOk
          /\ fs' = IF res = "ok" THEN RunCmdEnd(fs, r, res)
                   ELSE Remove(Remove(RunCmdEnd(fs, r, res), newVideoPath(r)),
                               newThumbnailPath(r))
          /\ run' = [run EXCEPT ![r] =
                  IF res = "ok"
                  THEN [Go(@, "mvscaled", "scale") EXCEPT !.input = NoInput,
                                                          !.inputOk = FALSE]
                  ELSE Fail(@, "scale", res)]
    /\ UNCHANGED <<Library, Config, web>>

UploadScaleEnd(r) ==
    /\ run[r].pc = "scale_wait"
    /\ Wait(r, "scale", "mvscaled")

\* os.Rename(scaledFileName, targetFilename), lines 375-380.
UploadMoveScaled(r) ==
    /\ run[r].pc = "mvscaled"
    /\ Move(r, "mvscaled", scaledFileName(r, run[r].cur),
            targetFilename(r, run[r].cur), UploadAfterScaled)

\* The handler has returned: its deferred os.Remove calls run, last first.
RunDeferred(r) ==
    /\ run[r].pc = "defer"
    /\ LET n == Len(run[r].defers)
       IN  /\ fs' = Remove(fs, run[r].defers[n])
           /\ run' = [run EXCEPT ![r] = Ret([@ EXCEPT !.defers = SubSeq(@, 1, n - 1)])]
    /\ UNCHANGED <<Library, Config, web>>

\* --------------------------------------------------------- importHandler
\* Paths of one import run: uf, tf, vf, thumbFn1, thumbFn2, sf.
uf(r) == Path(UploadPath, Stem("tube-import-", "", <<r, 0>>), "", ".mp4")
tf(r) == Path(UploadPath, Stem("tube-transcode-", "", <<r, 0>>), "", ".mp4")
vf(r) == Path(run[r].target, run[r].newFileName, "", ".mp4")
thumbFn1(r) == JpgOf(tf(r))
thumbFn2(r) == JpgOf(vf(r))
sf(r, suffix) == ScaledOf(vf(r), suffix)

\* Lines 642-647: the keys of Library.Paths, sorted; keys[0] is the target.
SortedDirs == <<"lib1", "lib2">>
Keys == SelectSeq(SortedDirs, LAMBDA k : k \in DOMAIN Library)

\* Lines 630-663: the url is read, the first collection taken, the video
\* info resolved.  keys[0] on an empty slice is a run-time panic, which
\* net/http recovers by dropping the connection: nothing is answered.
ImportBegin(r) ==
    /\ run[r].pc = "idle" /\ Arrives(r)
    /\ \E url \in {"", "url"}, res \in {"ok", "error"} :
          LET rec == [run[r] EXCEPT !.kind = "import"]
          IN  run' = [run EXCEPT ![r] =
                  IF url = ""
                  THEN Fail(rec, "url", "empty")
                  ELSE IF Keys = <<>>
                  THEN [rec EXCEPT !.pc = "panic",
                                   !.hist = Append(@, Ev("collection", "panic"))]
                  ELSE IF res # "ok"
                  THEN Fail([rec EXCEPT !.target = Keys[1]], "resolve", res)
                  ELSE Go([rec EXCEPT !.target = Keys[1]], "itemp", "resolve")]
    /\ UNCHANGED <<Library, Config, fs, web>>

\* ioutil.TempFile(UploadPath, "tube-import-*.mp4"), lines 665-675.
ImportTempFile(r) ==
    /\ run[r].pc = "itemp"
    /\ \E ok \in BOOLEAN :
          /\ fs' = IF ok THEN Put(fs, uf(r), File("source", r, FALSE, {})) ELSE fs
          /\ run' = [run EXCEPT ![r] =
                  IF ok THEN Defer(Go(@, "ihead", "tempfile"), uf(r))
                  ELSE Fail(@, "tempfile", "error")]
    /\ UNCHANGED <<Library, Config, web>>

\* What utils.SafeParseInt64(res.Header.Get("Content-Length"), -1) yields:
\* -1 for a missing or malformed header, else the declared length (here
\* the largest admitted one and the ones above it).
ContentLengths == {-1} \cup (MaxUploadSize..MaxContentLength)

\* Variant: the comparison is off by one.
ExceedsMaxUploadSizeOffByOne(contentLength) == contentLength > MaxUploadSize + 1

\* Line 693: the declared length against the configured maximum.
ExceedsMaxUploadSize(contentLength) == contentLength > MaxUploadSize

\* http.Head and the Content-Length it declares (-1: none that parses),
\* lines 679-704.
ImportHead(r) ==
    /\ run[r].pc = "ihead"
    /\ \E ok \in BOOLEAN, contentLength \in ContentLengths :
          run' = [run EXCEPT ![r] =
              IF ~ok THEN Fail(@, "head", "error")
              ELSE IF contentLength = -1 THEN Fail(@, "head", "error")
              ELSE IF ExceedsMaxUploadSize(contentLength)
              THEN Fail([@ EXCEPT !.cl = contentLength], "head", "toolarge")
              ELSE Go([@ EXCEPT !.cl = contentLength], "idownload", "head")]
    /\ UNCHANGED <<Library, Config, fs, web>>

\* utils.Download(videoInfo.VideoURL, uf.Name()), lines 708-713.
ImportDownload(r) ==
    /\ run[r].pc = "idownload"
    /\ \E ok \in BOOLEAN :
          /\ fs' = Download(fs, r, uf(r), "source", ok)
          /\ run' = [run EXCEPT ![r] =
                  IF ok THEN Go(@, "itemp2", "download")
                  ELSE Fail(@, "download", "error")]
    /\ UNCHANGED <<Library, Config, web>>

\* ioutil.TempFile(UploadPath, "tube-transcode-*.mp4") and the name of vf,
\* lines 715-731.  No removal of tf is deferred.
ImportTempTranscode(r) ==
    /\ run[r].pc = "itemp2"
    /\ \E ok \in BOOLEAN :
          /\ fs' = IF ok THEN Put(fs, tf(r), File("master", r, FALSE, {})) ELSE fs
          /\ run' = [run EXCEPT ![r] =
                  IF ok
                  THEN [Go(@, "ithumb", "tempfile2") EXCEPT
                            !.newFileName = Stem("", "", shortuuid(r, 1)),
                            !.nuuid = 1]
                  ELSE Fail(@, "tempfile2", "error")]
    /\ UNCHANGED <<Library, Config, web>>

\* utils.Download(videoInfo.ThumbnailURL, thumbFn1), lines 733-738.
ImportDownloadThumbnail(r) ==
    /\ run[r].pc = "ithumb"
    /\ \E ok \in BOOLEAN :
          /\ fs' = Download(fs, r, thumbFn1(r), "thumb", ok)
          /\ run' = [run EXCEPT ![r] =
                  IF ok THEN Go(@, "itranscode", "thumbnail")
                  ELSE Fail(@, "thumbnail", "error")]
    /\ UNCHANGED <<Library, Config, web>>

\* utils.RunCmd(... "-i", uf.Name(), ..., tf.Name()), lines 741-758.
ImportTranscodeStart(r) ==
    /\ run[r].pc = "itranscode"
    /\ Spawn(r, "transcode", uf(r), tf(r), "master", "itranscode_wait")

ImportTranscodeEnd(r) ==
    /\ run[r].pc = "itranscode_wait"
    /\ Wait(r, "transcode", "imvthumb")

\* Line 760: the thumbnail goes first; the master is next.
ImportAfterThumbnail(rec) == [rec EXCEPT !.pc = "imvmaster"]
\* Lines 767-776: with the master in place the sizes are gone through.
ImportAfterMaster(rec) == NextSize([rec EXCEPT !.todo = Config.Sizes], "isizes")

\* os.Rename(thumbFn1, thumbFn2), lines 760-765.
ImportMoveThumbnail(r) ==
    /\ run[r].pc = "imvthumb"
    /\ Move(r, "mvthumb", thumbFn1(r), thumbFn2(r), ImportAfterThumbnail)

\* os.Rename(tf.Name(), vf), lines 767-772.
ImportMoveMaster(r) ==
    /\ run[r].pc = "imvmaster"
    /\ Move(r, "mvmaster", tf(r), vf(r), ImportAfterMaster)

\* utils.RunCmd(... "-i", vf, "-s", size, ..., sf) for one size of the map,
\* lines 776-807: sf lies beside vf, in the collection.
ImportScaleStart(r) ==
    /\ run[r].pc = "isizes"
    /\ \E suffix \in run[r].todo :
          /\ fs' = RunCmdStart(fs, r, vf(r), sf(r, suffix), "derivative")
          /\ run' = [run EXCEPT ![r] =
                  [@ EXCEPT !.pc = "iscale_wait", !.cur = suffix,
                            !.todo = @ \ {suffix},
                            !.input = vf(r),
                            !.inputOk = Exists(fs, vf(r)),
                            !.hist = Append(@, Ev("spawn", "scale"))]]
    /\ UNCHANGED <<Library, Config, web>>

ImportScaleEnd(r) ==
    /\ run[r].pc = "iscale_wait"
    /\ \E res \in RunOutcomes :
          /\ res = "ok" => run[r].inputOk
          /\ fs' = RunCmdEnd(fs, r, res)
          /\ run' = [run EXCEPT ![r] =
                  IF res = "ok" THEN NextSize(Go(@, @.pc, "scale"), "isizes")
                  ELSE Fail(@, "scale", res)]
    /\ UNCHANGED <<Library, Config, web>>

\* ---------------------------------------------------------------- App.Run
\* An entry of Config.Library, and of Library.Paths once registered.
LibraryEntry(path, prefix, preserve) ==
    [Path |-> path, Prefix |-> prefix, PreserveUploadFilename |-> preserve]
\* A configured path: a directory, written with or without a trailing "/".
ConfigPath(dir, slash) == [dir |-> dir, slash |-> slash]
ConfigPaths ==
    {ConfigPath("lib1", FALSE), ConfigPath("lib1", TRUE), ConfigPath("lib2", FALSE)}
Prefixes == {"", "p"}
ConfigEntries ==
    {LibraryEntry(p, x, b) : p \in ConfigPaths, x \in Prefixes, b \in BOOLEAN}
SeqsUpTo(S, n) == UNION {[1..k -> S] : k \in 0..n}
\* filepath.Clean: the trailing separator is dropped.
Clean(path) == path.dir

\* media.Library.AddPath(p) (not under src/) refuses a path or a prefix that
\* is registered already, and leaves Library.Paths as it is when it does.
\* Variant: only the path is compared.
AddPathFailsOnPathOnly(lib, p) == p.Path \in DOMAIN lib
AddPathFails(lib, p) ==
    \/ p.Path \in DOMAIN lib
    \/ \E k \in DOMAIN lib : lib[k].Prefix = p.Prefix
AddPath(lib, p) == Put(lib, p.Path, p)

\* The id of the video file at path p of a collection with the prefix.
VideoID(prefix, p) == [prefix |-> prefix, stem |-> p.stem]
\* An entry of Library.Videos (a *media.Video): the file it stands for
\* and the view count last merged into it.
Video(p) == [Path |-> p, Views |-> 0]
IsVideoFile(f, p) == Exists(f, p) /\ p.q = "" /\ p.ext = ".mp4"
\* media.Library.Import(p) (not under src/): every video file under the
\* path is put into Library.Videos under its id.
LibraryImport(videos, f, p) ==
    LET found == {x \in DOMAIN f : x.dir = p.Path /\ IsVideoFile(f, x)}
        ids == {VideoID(p.Prefix, x) : x \in found}
    IN  [id \in (DOMAIN videos) \cup ids |->
            IF id \in ids
            THEN Video(CHOOSE x \in found : VideoID(p.Prefix, x) = id)
            ELSE videos[id]]

\* Run before its first statement, and Run serving requests.
Booting ==
    [pc |-> "addpath", i |-> 1, err |-> "", watched |-> {},
     watcher |-> FALSE, serving |-> FALSE]
Serving(paths) ==
    [pc |-> "serving", i |-> 0, err |-> "", watched |-> paths,
     watcher |-> TRUE, serving |-> TRUE]
\* "return err": Run is over, nothing is served.
Exit(b, err) == [b EXCEPT !.pc = "exit", !.err = err]
\* The head of the loop over Config.Library, line 153.
LoopHead(b) ==
    IF b.pc = "addpath" /\ b.i > Len(Config.Library)
    THEN [b EXCEPT !.pc = "uploadpath"] ELSE b
\* The entry at hand, its path cleaned (lines 154-159).
Entry(b) ==
    LET pc == Config.Library[b.i]
    IN  LibraryEntry(Clean(pc.Path), pc.Prefix, pc.PreserveUploadFilename)

\* a.Library.AddPath(p), lines 160-163.
RunAddPath ==
    /\ LoopHead(boot).pc = "addpath"
    /\ IF AddPathFails(Library, Entry(boot))
       THEN /\ boot' = Exit(boot, "addpath")
            /\ UNCHANGED Library
       ELSE /\ boot' = [boot EXCEPT !.pc = "import"]
            /\ Library' = AddPath(Library, Entry(boot))
    /\ UNCHANGED <<Config, fs, Videos, served>>

\* a.Library.Import(p), lines 164-167.
RunImport ==
    /\ boot.pc = "import"
    /\ \E ok \in BOOLEAN :
          IF ok
          THEN /\ boot' = [boot EXCEPT !.pc = "watch"]
               /\ Videos' = LibraryImport(Videos, fs, Entry(boot))
          ELSE /\ boot' = Exit(boot, "import")
               /\ UNCHANGED Videos
    /\ UNCHANGED <<Library, Config, fs, served>>

\* a.Watcher.Add(p.Path), line 168: its error is dropped.
RunWatcherAdd ==
    /\ boot.pc = "watch"
    /\ \E ok \in BOOLEAN :
          boot' = [boot EXCEPT !.pc = "addpath", !.i = @ + 1,
                               !.watched = IF ok THEN @ \cup {Entry(boot).Path} ELSE @]
    /\ UNCHANGED <<Library, Config, fs, Videos, served>>

\* os.Stat(UploadPath) and os.MkdirAll, lines 170-179.
RunUploadPath ==
    /\ LoopHead(boot).pc = "uploadpath"
    /\ \E res \in {"exists", "created", "error"} :
          boot' = IF res = "error" THEN Exit(boot, "mkdir")
                  ELSE [boot EXCEPT !.pc = "serve"]
    /\ UNCHANGED <<Library, Config, fs, Videos, served>>

\* buildFeed, go startWatcher(a), http.Serve, lines 180-182.
RunServe ==
    /\ boot.pc = "serve"
    /\ boot' = [boot EXCEPT !.pc = "serving", !.watcher = TRUE, !.serving = TRUE]
    /\ UNCHANGED <<Library, Config, fs, Videos, served>>

\* ------------------------------------------- the change-event loop
\* startWatcher (not under src/): for every event of a watched root the
\* catalog is updated under the library's exclusive lock.
Plays == 1..NumPlays
MasterA == Path("lib1", Stem("a", "", NoTok), "", ".mp4")
MasterB == Path("lib1", Stem("b", "", NoTok), "", ".mp4")
NoSync == [pc |-> "idle", op |-> "", path |-> MasterA, n |-> 0]
\* The prefix of the collection a path lies in.
PrefixOf(p) == Library[p.dir].Prefix
\* media.Library.Add / Remove on one file.
Upsert(videos, p) == Put(videos, VideoID(PrefixOf(p), p), Video(p))
Delete(videos, p) == Remove(videos, VideoID(PrefixOf(p), p))

\* A video file appears in, or disappears from, a watched collection, and
\* fsnotify delivers the event.
SyncEvent ==
    /\ sync.pc = "idle" /\ sync.n < MaxEvents
    /\ \E p \in {MasterA, MasterB} :
          /\ p.dir \in boot.watched
          /\ fs' = IF Exists(fs, p) THEN Remove(fs, p)
                   ELSE Put(fs, p, File("master", 0, TRUE, {}))
          /\ sync' = [sync EXCEPT !.pc = "event", !.path = p, !.n = @ + 1,
                                  !.op = IF Exists(fs, p) THEN "remove" ELSE "add"]
    /\ UNCHANGED <<Videos, Store, play, ingest>>

\* A video file appears in a collection root that no watch is attached to
\* (not yet, or because Watcher.Add failed): no event is delivered.
CreateUnwatched ==
    /\ sync.n < MaxEvents
    /\ \E p \in {MasterA, MasterB} :
          /\ p.dir \in DOMAIN Library /\ p.dir \notin boot.watched
          /\ ~Exists(fs, p)
          /\ fs' = Put(fs, p, File("master", 0, TRUE, {}))
          /\ sync' = [sync EXCEPT !.n = @ + 1]
    /\ UNCHANGED <<Videos, Store, play, ingest>>

\* The loop, once Run has started it (line 181), takes the exclusive lock
\* and starts to change Library.Videos.
SyncBegin ==
    /\ sync.pc = "event" /\ boot.watcher
    /\ sync' = [sync EXCEPT !.pc = "writing"]
    /\ UNCHANGED <<fs, Videos, Store, play, ingest>>

\* The change is complete; the lock is released.
SyncEnd ==
    /\ sync.pc = "writing"
    /\ Videos' = IF sync.op = "add" THEN Upsert(Videos, sync.path)
                 ELSE Delete(Videos, sync.path)
    /\ sync' = [sync EXCEPT !.pc = "idle"]
    /\ UNCHANGED <<fs, Store, play, ingest>>

\* A writer holds the exclusive lock of the library.
Writing == sync.pc = "writing"

\* ----------------------------------------------------- the view store
\* a.Store (NewBitcaskStore, not under src/): a counter per video id; every
\* call may fail, a failed read yields 0.
NoStore == <<>>
Views(store, id) == IF id \in DOMAIN store THEN store[id] ELSE 0
IncViews(store, id) == Put(store, id, Views(store, id) + 1)
StoreResults == {"ok", "err"}

\* -------------------------------- pageHandler, videoHandler, thumbHandler
IDs == {VideoID("", MasterA), VideoID("", MasterB)}
ValidQualities == {"720p", "480p", "360p", "240p"}
Qualities == {"", "720p", "hd"}
NoVideo == Video(Path("", Stem("", "", NoTok), "", ""))
\* exec.Command("ffmpeg", ..., "-i", in, ..., "-"), lines 964-973: the
\* command reads in and writes to its standard output; exec.Command sets no
\* deadline (timeout 0), and the process is started by cmd.Start only.
Command(in) == [input |-> in, timeout |-> 0, started |-> FALSE]
NoCmd == Command(NoVideo.Path)
IdlePlay ==
    [pc |-> "idle", kind |-> "none", id |-> VideoID("", MasterA), quality |-> "",
     found |-> FALSE, m |-> NoVideo, videoPath |-> NoVideo.Path, otf |-> FALSE,
     cmd |-> NoCmd, raced |-> FALSE, resp |-> <<>>, hist |-> <<>>]
NoPlay == [q \in Plays |-> IdlePlay]

\* The handler returns.
PlayRet(rec) == [rec EXCEPT !.pc = "done"]
PlayGo(rec, pc, what, res) == [rec EXCEPT !.pc = pc, !.hist = Append(@, Ev(what, res))]
PlayDid(q, what, res) ==
    \E i \in 1..Len(play[q].hist) : play[q].hist[i] = Ev(what, res)

\* a.Library.Videos[id], read without the library's lock.  Read while the
\* change-event loop is changing the map it is a data race: the read may
\* find the entry as it was, the entry being put, or nothing, or the Go
\* runtime may stop the process ("concurrent map read and map write").
Lookups(id) ==
    LET now == IF id \in DOMAIN Videos THEN {Videos[id]} ELSE {NoVideo}
        new == IF sync.op = "add" /\ VideoID(PrefixOf(sync.path), sync.path) = id
               THEN {Video(sync.path)} ELSE {}
    IN  IF Writing THEN now \cup new \cup {NoVideo} ELSE now
\* Requests are numbered in the order they arrive.
PlayArrives(q) == play[q].pc = "idle" => \A o \in 1..(q - 1) : play[o].pc # "idle"
Fatal == [q \in Plays |-> [play[q] EXCEPT !.pc = "fatal"]]
Lookup(q, kind, qualities, hit, miss) ==
    /\ play[q].pc = "idle" /\ PlayArrives(q)
    /\ \E id \in IDs, quality \in qualities :
          \/ \E m \in Lookups(id) :
                LET rec == [play[q] EXCEPT !.kind = kind, !.id = id,
                                !.quality = quality, !.raced = Writing,
                                !.found = m # NoVideo, !.m = m]
                IN  /\ play' = [play EXCEPT ![q] =
                          IF m # NoVideo THEN PlayGo(rec, hit, "lookup", "hit")
                          ELSE PlayGo(rec, miss, "lookup", "miss")]
                    /\ UNCHANGED sync
          \/ /\ Writing
             /\ play' = [Fatal EXCEPT ![q].kind = kind, ![q].id = id,
                                     ![q].raced = TRUE]
             /\ sync' = [sync EXCEPT !.pc = "fatal"]
    /\ UNCHANGED <<fs, Videos, Store, ingest>>

\* The answers a handler writes: what, and the file or video it is about.
Resp(what, p) == <<what, p>>
ErrorResp == Resp("error", NoVideo.Path)

\* Variant: an unknown id does not end the handler.
VideoLookupGoesOn(q) == Lookup(q, "video", Qualities, "quality", "migrate")

\* videoHandler, lines 903-919: an unknown id ends the handler, nothing is
\* written.
VideoLookup(q) == Lookup(q, "video", Qualities, "quality", "done")

\* Lines 921-944: the file to serve, and whether it has to be encoded on
\* the fly.
VideoPathOf(m, quality) ==
    IF quality \in ValidQualities THEN ScaledOf(m.Path, quality) ELSE m.Path
VideoQuality(q) ==
    /\ play[q].pc = "quality"
    /\ LET videoPath == VideoPathOf(play[q].m, play[q].quality)
           otf == play[q].quality \in ValidQualities /\ ~Exists(fs, videoPath)
       IN  play' = [play EXCEPT ![q] =
               [@ EXCEPT !.pc = "migrate", !.videoPath = videoPath, !.otf = otf]]
    /\ UNCHANGED <<fs, Videos, Store, sync, ingest>>

\* a.Store.Migrate(prefix, id), lines 946-949: an error is logged.
VideoMigrate(q) ==
    /\ play[q].pc = "migrate"
    /\ \E res \in StoreResults :
          play' = [play EXCEPT ![q] = PlayGo(@, "incviews", "migrate", res)]
    /\ UNCHANGED <<fs, Videos, Store, sync, ingest>>

\* Variant: a failed increment is answered with an error.
VideoIncViewsSurfaces(q) ==
    /\ play[q].pc = "incviews"
    /\ \E res \in StoreResults :
          /\ play' = [play EXCEPT ![q] =
                  IF res = "ok" THEN PlayGo(@, "serve", "incviews", res)
                  ELSE PlayRet([PlayGo(@, "serve", "incviews", res) EXCEPT
                                    !.resp = Append(@, ErrorResp)])]
          /\ Store' = IF res = "ok" THEN IncViews(Store, play[q].id) ELSE Store
    /\ UNCHANGED <<fs, Videos, sync, ingest>>

\* a.Store.IncViews(id), lines 951-954: an error is logged.
VideoIncViews(q) ==
    /\ play[q].pc = "incviews"
    /\ \E res \in StoreResults :
          /\ play' = [play EXCEPT ![q] = PlayGo(@, "serve", "incviews", res)]
          /\ Store' = IF res = "ok" THEN IncViews(Store, play[q].id) ELSE Store
    /\ UNCHANGED <<fs, Videos, sync, ingest>>

\* http.ServeFile(w, r, videoPath), line 1026.
VideoServeFile(q) ==
    /\ play[q].pc = "serve" /\ ~play[q].otf
    /\ play' = [play EXCEPT ![q] =
            PlayRet([@ EXCEPT !.resp = Append(@,
                IF Exists(fs, play[q].videoPath) THEN Resp("file", play[q].videoPath)
                ELSE Resp("notfound", play[q].videoPath))])]
    /\ UNCHANGED <<fs, Videos, Store, sync, ingest>>

\* Lines 960-979: the command is built and cmd.StderrPipe() called; then
\* io.Copy(os.Stdout, stderr) reads the pipe to its end.  The process is
\* not started yet and the write end of the pipe stays open in the server,
\* so the read never returns: the handler stays at "stderr".
VideoStderrPipe(q) ==
    /\ play[q].pc = "serve" /\ play[q].otf
    /\ \E ok \in BOOLEAN :
          LET rec == [play[q] EXCEPT !.cmd = Command(play[q].videoPath)]
          IN  play' = [play EXCEPT ![q] =
                  IF ok THEN PlayGo(rec, "stderr", "stderrpipe", "ok")
                  ELSE PlayRet([PlayGo(rec, "serve", "stderrpipe", "err") EXCEPT
                                    !.resp = Append(@, ErrorResp)])]
    /\ UNCHANGED <<fs, Videos, Store, sync, ingest>>

\* pageHandler, lines 817-824.
PageLookup(q) == Lookup(q, "page", Qualities, "getviews", "missing")

\* Lines 825-843: for an unknown id the upload page is rendered over the
\* playlist (Library.Playlist reads under the library's lock).
PageMissing(q) ==
    /\ play[q].pc = "missing" /\ ~Writing
    /\ play' = [play EXCEPT ![q] =
            PlayRet([@ EXCEPT !.resp = Append(@, Resp("upload", NoVideo.Path))])]
    /\ UNCHANGED <<fs, Videos, Store, sync, ingest>>

\* What a.Store.GetViews(id) returns: the count, or 0 with an error.
GetViews(store, id, res) == IF res = "ok" THEN Views(store, id) ELSE 0
\* video.Views = views through the pointer the catalog holds: the entry in
\* the map is the one written, as long as it is the entry that was read.
SetViews(videos, id, m, views) ==
    IF id \in DOMAIN videos /\ videos[id].Path = m.Path
    THEN [videos EXCEPT ![id].Views = views]
    ELSE videos

\* a.Store.GetViews(id), lines 845-851: an error is logged; then
\* playing.Views = views, line 851.
PageGetViews(q) ==
    /\ play[q].pc = "getviews"
    /\ \E res \in StoreResults :
          /\ play' = [play EXCEPT ![q] = PlayGo(@, "playlist", "getviews", res)]
          /\ Videos' = SetViews(Videos, play[q].id, play[q].m,
                                GetViews(Store, play[q].id, res))
    /\ UNCHANGED <<fs, Store, sync, ingest>>

\* Lines 853-898: the playlist, the views of each of its videos (an error
\* is logged), the sort, and the index page with the playing video.
PagePlaylist(q) ==
    /\ play[q].pc = "playlist" /\ ~Writing
    /\ \E results \in [DOMAIN Videos -> StoreResults] :
          LET res == IF \E id \in DOMAIN Videos : results[id] = "err"
                     THEN "err" ELSE "ok"
          IN  /\ play' = [play EXCEPT ![q] =
                    PlayRet([PlayGo(@, "playlist", "getviews", res) EXCEPT
                                 !.resp = Append(@, Resp("index", play[q].m.Path))])]
              /\ Videos' = [id \in DOMAIN Videos |->
                      [Videos[id] EXCEPT !.Views = GetViews(Store, id, results[id])]]
    /\ UNCHANGED <<fs, Store, sync, ingest>>

\* thumbHandler, lines 1031-1042.
ThumbLookup(q) == Lookup(q, "thumb", {""}, "thumb", "done")

\* Lines 1043-1050: the thumbnail of the entry, or the default icon.
ThumbWrite(q) ==
    /\ play[q].pc = "thumb"
    /\ play' = [play EXCEPT ![q] =
            PlayRet([@ EXCEPT !.resp = Append(@, Resp("thumb", play[q].m.Path))])]
    /\ UNCHANGED <<fs, Videos, Store, sync, ingest>>

\* ------------------------------------------------------- specification
\* A configuration as Run leaves it: the library's paths registered, each
\* with its flag, the scratch directory and the collections empty.
Configured(sizeSets) ==
    /\ \E dirs \in LibrarySets, preserve \in BOOLEAN :
          /\ Library = [d \in dirs |-> LibraryEntry(d, "", preserve)]
          /\ \E global \in BOOLEAN, sizes \in sizeSets :
                Config = [PreserveUploadFilename |-> global, Sizes |-> sizes,
                          Library |-> IF dirs = {} THEN <<>>
                                      ELSE <<LibraryEntry(ConfigPath("lib1", FALSE),
                                                          "", preserve)>>]
    /\ fs = <<>>
    /\ run = [r \in Runs |-> IdleRun]
    /\ boot = Serving(DOMAIN Library)
    /\ Videos = <<>>
    /\ Store = NoStore
    /\ sync = NoSync
    /\ play = NoPlay

Init == Configured(SizeSets)

Step(r) ==
    \/ UploadBegin(r)
    \/ UploadNameCheck(r)
    \/ UploadStage(r)
    \/ UploadCreate(r)
    \/ UploadTranscodeStart(r)
    \/ UploadTranscodeEnd(r)
    \/ UploadThumbnailStart(r)
    \/ UploadThumbnailEnd(r)
    \/ UploadMoveThumbnail(r)
    \/ UploadMoveMaster(r)
    \/ UploadScaleStart(r)
    \/ UploadScaleEnd(r)
    \/ UploadMoveScaled(r)
    \/ ImportBegin(r)
    \/ ImportTempFile(r)
    \/ ImportHead(r)
    \/ ImportDownload(r)
    \/ ImportTempTranscode(r)
    \/ ImportDownloadThumbnail(r)
    \/ ImportTranscodeStart(r)
    \/ ImportTranscodeEnd(r)
    \/ ImportMoveThumbnail(r)
    \/ ImportMoveMaster(r)
    \/ ImportScaleStart(r)
    \/ ImportScaleEnd(r)
    \/ RunDeferred(r)

\* Requests are served concurrently, one goroutine each.
Next == \E r \in Runs : Step(r)

Spec == Init /\ [][Next]_vars

\* Every goroutine that serves a request and can take a step is scheduled
\* eventually; a step that waits for a process is taken when the process
\* has ended, which utils.RunCmd's timeout sees to.
FairSpec == Spec /\ \A r \in Runs : WF_vars(Step(r))

\* Requests that arrive one after another: a request begins only when no
\* other is being served.  The configuration may name a second size.
SeqNext ==
    \E r \in Runs :
        /\ run[r].pc = "idle" => \A o \in Runs : ~Active(o)
        /\ Step(r)

SeqInit == Configured(SizeSetsUpTo(MaxSeqSizes))

SeqSpec == SeqInit /\ [][SeqNext]_vars

\* Startup: Run on a configuration of up to MaxLibrary entries, over
\* collections that hold no video yet or one.
InitialFiles ==
    {<<>>, Put(<<>>, Path("lib1", Stem("a", "", NoTok), "", ".mp4"),
               File("master", 0, TRUE, {}))}
RunInit ==
    /\ Library = <<>>
    /\ \E lib \in SeqsUpTo(ConfigEntries, MaxLibrary) :
          Config = [PreserveUploadFilename |-> FALSE, Sizes |-> {}, Library |-> lib]
    /\ fs \in InitialFiles
    /\ run = [r \in Runs |-> IdleRun]
    /\ boot = Booting
    /\ Videos = <<>>
    /\ Store = NoStore
    /\ sync = NoSync
    /\ play = NoPlay

RunNext ==
    \/ RunAddPath
    \/ RunImport
    \/ RunWatcherAdd
    \/ RunUploadPath
    \/ RunServe

RunSpec == RunInit /\ [][RunNext]_vars

\* Serving pages, videos and thumbnails of one collection that holds a
\* video, with or without its 720p derivative, while files come and go.
PlayFiles ==
    LET master == Put(<<>>, MasterA, File("master", 0, TRUE, {}))
    IN  {master, Put(master, ScaledOf(MasterA, "720p"), File("derivative", 0, TRUE, {}))}
PlayInit ==
    /\ Library = Put(<<>>, "lib1", LibraryEntry("lib1", "", FALSE))
    /\ Config = [PreserveUploadFilename |-> FALSE, Sizes |-> {},
                 Library |-> <<LibraryEntry(ConfigPath("lib1", FALSE), "", FALSE)>>]
    /\ fs \in PlayFiles
    /\ run = [r \in Runs |-> IdleRun]
    /\ boot = Serving({"lib1"})
    /\ Videos = LibraryImport(<<>>, fs, Library["lib1"])
    /\ Store = NoStore
    /\ sync = NoSync
    /\ play = NoPlay

PlayStep(q) ==
    \/ VideoLookup(q)
    \/ VideoQuality(q)
    \/ VideoMigrate(q)
    \/ VideoIncViews(q)
    \/ VideoServeFile(q)
    \/ VideoStderrPipe(q)
    \/ PageLookup(q)
    \/ PageMissing(q)
    \/ PageGetViews(q)
    \/ PagePlaylist(q)
    \/ ThumbLookup(q)
    \/ ThumbWrite(q)

SyncStep ==
    \/ SyncEvent
    \/ SyncBegin
    \/ SyncEnd

PlayNext ==
    \/ \E q \in Plays : PlayStep(q)
    \/ SyncStep

PlaySpec == PlayInit /\ [][PlayNext]_vars

\* Startup while video files appear in, and disappear from, the roots.
BootNext ==
    \/ RunNext
    \/ SyncStep
    \/ CreateUnwatched

BootSpec == RunInit /\ [][BootNext]_vars

\* Run goes on while it can, and so does the change-event loop once it
\* has an event at hand.
BootFairSpec ==
    /\ BootSpec
    /\ WF_vars(RunNext)
    /\ WF_vars(SyncBegin) /\ WF_vars(SyncEnd)

\* Every goroutine that can take a step is scheduled eventually.
PlayFairSpec ==
    /\ PlaySpec
    /\ \A q \in Plays : WF_vars(PlayStep(q))
    /\ WF_vars(SyncStep)

\* ================================================================ claims
InCollection(p) == p.dir \in LibraryDirs
InScratch(p) == p.dir = UploadPath
Complete(p) == fs[p].complete /\ fs[p].writers = {}
Published(r) == Did(r, "mvmaster", "ok")
NoProcess(r) == ~Tried(r, "spawn")
NothingPublished(r) ==
    /\ ~Tried(r, "mvthumb") /\ ~Tried(r, "mvmaster") /\ ~Tried(r, "mvscaled")
    /\ \A p \in DOMAIN fs : InCollection(p) => fs[p].owner # r

\* C1: when a handler has returned and its deferred calls have run, no file
\* the run created is left in the scratch directory.
C1_ScratchCleanOnReturn ==
    \A r \in Runs :
        run[r].pc = "done" => \A p \in DOMAIN fs : InScratch(p) => fs[p].owner # r

\* C2: a thumbnail or a master that lies in a collection is a completely
\* produced file that no process writes to: it got there by a rename of a
\* finished scratch file.
C2_PublishedFilesComplete ==
    \A p \in DOMAIN fs :
        (InCollection(p) /\ fs[p].kind \in {"master", "thumb"}) => Complete(p)

\* C3: in every run, a rename of the master is attempted only after the
\* rename of the thumbnail of the same run has succeeded.
C3_ThumbnailBeforeMaster ==
    \A r \in Runs : \A i \in 1..Len(run[r].hist) :
        run[r].hist[i][1] = "mvmaster" =>
            \E j \in 1..(i - 1) : run[r].hist[j] = Ev("mvthumb", "ok")

C3_Witness ==
    \E u, i \in Runs :
        /\ run[u].kind = "upload" /\ Published(u)
        /\ run[i].kind = "import" /\ Published(i)

\* C4: a run whose master transcode or thumbnail step failed answers with
\* an error, and no file of that run ever lies in a collection.
StepFailed(r, what) ==
    \E k \in 1..Len(run[r].hist) :
        run[r].hist[k][1] = what /\ run[r].hist[k][2] # "ok"
C4_FailedRunPublishesNothing ==
    \A r \in Runs :
        (StepFailed(r, "transcode") \/ StepFailed(r, "thumbnail")) =>
            /\ run[r].resp = <<"error">>
            /\ \A p \in DOMAIN fs : InCollection(p) => fs[p].owner # r

\* C5: a failed derivative step (encode or rename) is answered with an
\* error, and no step a run takes once its master is published changes or
\* removes the published master or thumbnail.
KeepsPublished(r) ==
    \A p \in {newVideoPath(r), newThumbnailPath(r)} :
        Exists(fs, p) => (Exists(fs', p) /\ fs'[p] = fs[p])
C5_DerivativeFailureKeepsMaster ==
    /\ [](\A r \in Runs :
            (StepFailed(r, "scale") \/ StepFailed(r, "mvscaled")) =>
                (Published(r) /\ run[r].resp = <<"error">>))
    /\ [][\A r \in Runs :
            (Published(r) /\ run'[r] # run[r]) => KeepsPublished(r)]_vars

C5_Witness ==
    \E u, i \in Runs :
        /\ run[u].kind = "upload" /\ run[i].kind = "import"
        /\ \A r \in {u, i} :
              /\ Returned(r) /\ Published(r) /\ StepFailed(r, "scale")
              /\ Exists(fs, newVideoPath(r)) /\ Exists(fs, newThumbnailPath(r))

\* C6: a derivative that lies in a collection is a completely produced file
\* that no process writes to: the encoder wrote it in the scratch directory
\* and it was renamed into the collection afterwards.
C6_DerivativesStagedThenRenamed ==
    \A p \in DOMAIN fs :
        (InCollection(p) /\ fs[p].kind = "derivative") => Complete(p)

\* C7: with filename preservation disabled, in uploads served one after
\* another, the name that name resolution returns exists neither in the
\* scratch directory nor in the target collection when it is returned, and
\* two uploads published into one collection have distinct basenames.
C7_ResolvedNameIsFree ==
    \A r \in Runs :
        (run[r].kind = "upload" /\ Did(r, "name", "ok")
            /\ ~preserveUploadFilenameIsEnabled(run[r].target)) =>
            /\ run[r].pc = "stage" =>
                  /\ ~Exists(fs, transcodedVideoPath(r))
                  /\ ~Exists(fs, newVideoPath(r))
            /\ \A o \in Runs \ {r} :
                  (run[o].kind = "upload" /\ Published(o) /\ Published(r)
                      /\ run[o].target = run[r].target) =>
                      run[o].newFileName # run[r].newFileName

\* C8: an upload's basename is the stem of the client's filename only if
\* preservation is enabled globally or for the target; with both disabled
\* it is a bare random token.
C8_StemOnlyWhenPreserving ==
    \A r \in Runs :
        (run[r].kind = "upload" /\ Did(r, "name", "ok")) =>
            IF preserveUploadFilenameIsEnabled(run[r].target)
            THEN TRUE
            ELSE /\ run[r].newFileName.base = ""
                 /\ run[r].newFileName.tok # NoTok

\* C9: a request whose target is no registered collection (an upload naming
\* one, an import while none is registered) is answered with an error and
\* has started no process and left no file anywhere.
UnknownTarget(r) ==
    \/ run[r].kind = "upload" /\ run[r].target \notin DOMAIN Library
    \/ run[r].kind = "import" /\ DOMAIN Library = {}
C9_UnknownTargetFailsCleanly ==
    \A r \in Runs :
        (Returned(r) /\ UnknownTarget(r)) =>
            /\ run[r].resp = <<"error">>
            /\ NoProcess(r)
            /\ \A p \in DOMAIN fs : fs[p].owner # r

\* C10: an import whose declared content length exceeds the maximum upload
\* size is answered with an error; it downloads nothing, starts no process
\* and publishes nothing.
C10_OversizedImportRejected ==
    \A r \in Runs :
        (run[r].kind = "import" /\ run[r].cl > MaxUploadSize) =>
            /\ run[r].resp = <<"error">>
            /\ ~Tried(r, "download") /\ ~Tried(r, "thumbnail")
            /\ NoProcess(r)
            /\ NothingPublished(r)
            /\ \A p \in DOMAIN fs : fs[p].owner = r => ~fs[p].complete

C10_Witness ==
    \E r \in Runs :
        /\ run[r].kind = "import" /\ run[r].cl > MaxUploadSize
        /\ Did(r, "head", "toolarge") /\ run[r].pc = "done"

\* C11: an upload whose payload is larger than the maximum upload size is
\* answered with an error; its payload is never staged in the scratch
\* directory, no process is started for it and nothing of it is published.
C11_OversizedUploadRejected ==
    \A r \in Runs :
        (run[r].kind = "upload" /\ run[r].size > MaxUploadSize) =>
            /\ ~Tried(r, "stage")
            /\ NoProcess(r)
            /\ NothingPublished(r)
            /\ Returned(r) => run[r].resp = <<"error">>

\* C16: a successful upload with k configured sizes has started exactly one
\* master transcode, one thumbnail extraction and k derivative encodes, and
\* has made exactly 2 + k renames: the thumbnail, then the master, then one
\* per derivative; thumbnail and master go to one directory under one stem.
Count(r, e) == Cardinality({i \in 1..Len(run[r].hist) : run[r].hist[i] = e})
IsRename(e) == e[1] \in {"mvthumb", "mvmaster", "mvscaled"} /\ e[2] = "ok"
Renames(r) == SelectSeq(run[r].hist, IsRename)
C16_SuccessfulUploadSteps ==
    \A r \in Runs :
        (run[r].kind = "upload" /\ run[r].resp = <<"ok">>) =>
            LET k == Cardinality(Config.Sizes)
            IN  /\ Count(r, Ev("spawn", "transcode")) = 1
                /\ Count(r, Ev("spawn", "thumbnail")) = 1
                /\ Count(r, Ev("spawn", "scale")) = k
                /\ Len(Renames(r)) = 2 + k
                /\ Renames(r)[1] = Ev("mvthumb", "ok")
                /\ Renames(r)[2] = Ev("mvmaster", "ok")
                /\ \A i \in 3..(2 + k) : Renames(r)[i] = Ev("mvscaled", "ok")
                /\ newThumbnailPath(r).dir = newVideoPath(r).dir
                /\ newThumbnailPath(r).stem = newVideoPath(r).stem

C16_Witness ==
    \E r \in Runs :
        /\ run[r].kind = "upload" /\ run[r].resp = <<"ok">> /\ run[r].pc = "done"
        /\ Config.Sizes # {}

\* C17: the pipeline steps of every run are taken in the order stage,
\* transcode, thumbnail, publish (thumbnail rename, master rename), none
\* skipped, none repeated; a failed step is the run's last and is answered
\* with an error; a handler that has returned takes no further step.
PipelineOrder == <<"stage", "transcode", "thumbnail", "mvthumb", "mvmaster">>
PipelineStepOf(e) ==
    IF e[1] = "download" THEN "stage"
    ELSE IF e[1] \in {"stage", "transcode", "thumbnail", "mvthumb", "mvmaster"}
    THEN e[1] ELSE ""
IsPipelineStep(e) == PipelineStepOf(e) # ""
PipelineSteps(r) == SelectSeq(run[r].hist, IsPipelineStep)
C17_PipelineOrder ==
    /\ [](\A r \in Runs :
            LET steps == PipelineSteps(r)
            IN  /\ Len(steps) <= Len(PipelineOrder)
                /\ \A i \in 1..Len(steps) :
                      /\ PipelineStepOf(steps[i]) = PipelineOrder[i]
                      /\ steps[i][2] # "ok" =>
                            (i = Len(steps) /\ run[r].resp = <<"error">>))
    /\ [][\A r \in Runs :
            run[r].pc \in {"defer", "done", "panic"} => run'[r].hist = run[r].hist]_vars

\* C18: a request is answered at most once, a handler that has returned has
\* answered exactly once, and the success message is written only after the
\* thumbnail, the master and one derivative per configured size are in the
\* collection.
Derivatives(r) ==
    IF run[r].kind = "upload" THEN Count(r, Ev("mvscaled", "ok"))
    ELSE Count(r, Ev("scale", "ok"))
C18_ExactlyOneOutcome ==
    \A r \in Runs :
        /\ Len(run[r].resp) <= 1
        /\ Returned(r) => Len(run[r].resp) = 1
        /\ run[r].resp = <<"ok">> =>
              /\ Did(r, "mvthumb", "ok") /\ Did(r, "mvmaster", "ok")
              /\ Derivatives(r) = Cardinality(Config.Sizes)

\* C14: a video request that has to be encoded on the fly does not stay
\* for ever in the part of the handler that precedes the start of the
\* encoder process: it gets past it, to the process it starts and the
\* forwarding of its output (or to an answer).
BeforeStart == {"serve", "stderr"}
C14_OtfGetsToStart ==
    \A q \in Plays :
        (play[q].otf /\ play[q].pc \in BeforeStart) ~> (play[q].pc \notin BeforeStart)

\* C15: no handler reads Library.Videos while a writer that holds the
\* library's lock is changing it.
C15_ReadsExcludeWrites == \A q \in Plays : ~play[q].raced

\* C19: what a page or video request for a known video is answered with
\* does not depend on the results of the store calls: the page is the index
\* page of the video, the video request serves the file of the requested
\* quality, and an error is written only when the pipe of the on-the-fly
\* encoder cannot be created.  (The counts shown are what the store
\* answered, 0 when it failed.)
StoreFailed(q) ==
    \E what \in {"migrate", "incviews", "getviews"} : PlayDid(q, what, "err")
C19_StoreFailureNotSurfaced ==
    \A q \in Plays :
        (play[q].pc = "done" /\ play[q].found) =>
            /\ Len(play[q].resp) = 1
            /\ play[q].kind = "page" => play[q].resp[1] = Resp("index", play[q].m.Path)
            /\ (play[q].kind = "video" /\ ~play[q].otf) =>
                  /\ play[q].resp[1][1] \in {"file", "notfound"}
                  /\ play[q].resp[1][2] = VideoPathOf(play[q].m, play[q].quality)
            /\ (play[q].kind = "video" /\ play[q].otf) =>
                  /\ play[q].resp[1] = ErrorResp
                  /\ PlayDid(q, "stderrpipe", "err")

C19_Witness ==
    \E v, p \in Plays :
        /\ play[v].kind = "video" /\ play[v].pc = "done"
        /\ PlayDid(v, "migrate", "err") /\ PlayDid(v, "incviews", "err")
        /\ play[v].resp = <<Resp("file", MasterA)>>
        /\ play[p].kind = "page" /\ play[p].pc = "done"
        /\ StoreFailed(p) /\ play[p].resp = <<Resp("index", MasterA)>>

\* C20: when an entry of the configured library repeats the path or the
\* prefix of an earlier entry, Run returns an error and never gets past its
\* loop (no watcher loop, no serving), and the step that refuses the entry
\* leaves the registered collections and the catalog as they were.
HasDuplicate(lib) ==
    \E i, j \in 1..Len(lib) :
        /\ i < j
        /\ \/ Clean(lib[i].Path) = Clean(lib[j].Path)
           \/ lib[i].Prefix = lib[j].Prefix
C20_DuplicateCollectionFailsRun ==
    /\ [](HasDuplicate(Config.Library) =>
            /\ ~boot.serving /\ ~boot.watcher
            /\ boot.pc \notin {"uploadpath", "serve", "serving"}
            /\ boot.i <= Len(Config.Library)
            /\ boot.pc = "exit" => boot.err # "")
    /\ [][boot'.err = "addpath" => (Library' = Library /\ Videos' = Videos)]_vars

C20_Witness ==
    /\ HasDuplicate(Config.Library)
    /\ boot.pc = "exit" /\ boot.err = "addpath"
    /\ DOMAIN Library # {} /\ DOMAIN Videos # {}

\* C22: while two uploads into one collection whose client filenames have
\* the same stem are both being served, their scratch output paths differ
\* and so do the basenames they publish under, and no step of either
\* changes, replaces or removes a scratch or published file of the other.
SameStemUploads(r, o) ==
    /\ r # o
    /\ run[r].kind = "upload" /\ run[o].kind = "upload"
    /\ Active(r) /\ Active(o)
    /\ Did(r, "name", "ok") /\ Did(o, "name", "ok")
    /\ run[r].target = run[o].target
    /\ run[r].filename # EmptyFileName
    /\ basenameWithoutExtension(run[r].filename) = basenameWithoutExtension(run[o].filename)
KeepsFilesOf(o) ==
    \A p \in DOMAIN fs :
        fs[p].owner = o => (Exists(fs', p) /\ fs'[p].owner = o)
C22_ConcurrentUploadsDistinct ==
    /\ [](\A r, o \in Runs :
            SameStemUploads(r, o) =>
                /\ transcodedVideoPath(r) # transcodedVideoPath(o)
                /\ newVideoPath(r) # newVideoPath(o))
    /\ [][\A r, o \in Runs :
            (SameStemUploads(r, o) /\ run'[r] # run[r]) => KeepsFilesOf(o)]_vars

\* C23: a run whose thumbnail rename failed never attempts the rename of
\* its master; a run whose thumbnail rename succeeded and whose master
\* rename failed is answered with an error, its thumbnail is still in the
\* collection, and it starts no derivative encode and renames none.
C23_PublishFailures ==
    \A r \in Runs :
        /\ StepFailed(r, "mvthumb") =>
              (~Tried(r, "mvmaster") /\ run[r].resp = <<"error">>)
        /\ (Did(r, "mvthumb", "ok") /\ StepFailed(r, "mvmaster")) =>
              /\ run[r].resp = <<"error">>
              /\ Exists(fs, newThumbnailPath(r))
              /\ Count(r, Ev("spawn", "scale")) = 0
              /\ ~Tried(r, "mvscaled")

C23_Witness ==
    \E u, i \in Runs :
        /\ run[u].kind = "upload" /\ run[u].pc = "done"
        /\ Did(u, "mvthumb", "ok") /\ StepFailed(u, "mvmaster")
        /\ Config.Sizes # {}
        /\ run[i].kind = "import" /\ run[i].pc = "done"
        /\ StepFailed(i, "mvthumb")

\* C24: name resolution never returns a name whose absence it could not
\* verify (a failed existence check ends the upload instead): at the step
\* in which an upload leaves name resolution with a name, no file of that
\* name exists in the target collection or in the scratch directory.
VerifiedAbsent(r) ==
    /\ ~Exists(fs, Path(run[r].target, run'[r].newFileName, "", ".mp4"))
    /\ ~Exists(fs, Path(UploadPath, run'[r].newFileName, "", ".mp4"))
C24_UnverifiedNameNotReturned ==
    [][\A r \in Runs :
        (run[r].pc = "name" /\ run'[r].pc = "stage") => VerifiedAbsent(r)]_vars

\* C25: a failed derivative does not keep the remaining configured sizes
\* from being attempted: a run that published its master has, when its
\* handler returns, started one derivative encode per configured size.
C25_AllSizesAttempted ==
    \A r \in Runs :
        (Returned(r) /\ Published(r)) =>
            Count(r, Ev("spawn", "scale")) = Cardinality(Config.Sizes)

\* C26: the process that encodes a derivative, in an upload and in an
\* import, reads the staged source file of its run (the staged payload, the
\* downloaded file) and not the master the run has published.
StagedSource(r) == IF run[r].kind = "upload" THEN uploadedFile(r) ELSE uf(r)
Scaling(r) ==
    /\ run[r].hist # <<>>
    /\ run[r].hist[Len(run[r].hist)] = Ev("spawn", "scale")
C26_DerivativesFromStagedSource ==
    \A r \in Runs :
        Scaling(r) =>
            /\ run[r].input = StagedSource(r)
            /\ run[r].input # newVideoPath(r)

\* C30: a publish step overwrites nothing: in the step in which an upload
\* or an import renames its thumbnail or its master into the collection, no
\* file exists at the destination path.
Renamed(r, what) == run'[r].hist = Append(run[r].hist, Ev(what, "ok"))
C30_PublishOverwritesNothing ==
    [][\A r \in Runs :
        /\ Renamed(r, "mvthumb") => ~Exists(fs, newThumbnailPath(r))
        /\ Renamed(r, "mvmaster") => ~Exists(fs, newVideoPath(r))]_vars

\* C21: with every process ended by its timeout at the latest and the
\* staging I/O completing, every upload or import that has begun eventually
\* has its handler returned with its answer written.
C21_RunsTerminate ==
    \A r \in Runs :
        (run[r].pc # "idle") ~> (Returned(r) /\ Len(run[r].resp) = 1)

\* C27: a video request for a known video has an encoder process started
\* for it if and only if its quality is one of the four sizes and the file
\* of that quality does not exist; if the file exists it is the file
\* served, and for an empty or unknown quality the master is served; in
\* both of these cases no command is built and no process started.
IsVideoRequest(q) == play[q].kind = "video" /\ play[q].found
NeedsEncoder(q) ==
    /\ play[q].quality \in ValidQualities
    /\ ~Exists(fs, ScaledOf(play[q].m.Path, play[q].quality))
Spawned(q) == play[q].cmd.started
FileToServe(q) ==
    IF play[q].quality \in ValidQualities
    THEN ScaledOf(play[q].m.Path, play[q].quality)
    ELSE play[q].m.Path
C27_EncoderIffDerivativeMissing ==
    /\ [](\A q \in Plays :
            (IsVideoRequest(q) /\ ~NeedsEncoder(q)) =>
                /\ play[q].cmd = NoCmd
                /\ play[q].pc = "done" =>
                      /\ Len(play[q].resp) = 1
                      /\ play[q].resp[1][1] \in {"file", "notfound"}
                      /\ play[q].resp[1][2] = FileToServe(q))
    /\ \A q \in Plays :
          (IsVideoRequest(q) /\ NeedsEncoder(q)) ~>
              (Spawned(q) \/ play[q].resp = <<ErrorResp>>)

\* C28: the command built for on-the-fly encoding is given a file that
\* exists as its input: the master of the video, not the path of the
\* missing file of the requested quality.  (The command is never started:
\* see C14.)
Built(q) == play[q].cmd = NoCmd /\ play'[q].cmd # NoCmd
C28_EncoderReadsMaster ==
    [][\A q \in Plays :
        Built(q) =>
            /\ play'[q].cmd.input = play[q].m.Path
            /\ Exists(fs, play'[q].cmd.input)]_vars

\* C29: the command built for on-the-fly encoding runs under a wall-clock
\* timeout, like the commands of the upload and import handlers.
C29_EncoderHasTimeout ==
    \A q \in Plays : play[q].cmd # NoCmd => play[q].cmd.timeout > 0

\* C31: a video or thumbnail request whose id is not found in the catalog
\* changes nothing: its handler returns at once, having called neither
\* Migrate nor IncViews on the store, built no command, started no process
\* and written and served nothing.
Missed(q) == play[q].kind \in {"video", "thumb"} /\ PlayDid(q, "lookup", "miss")
C31_UnknownIdChangesNothing ==
    \A q \in Plays :
        Missed(q) =>
            /\ play[q].pc \in {"done", "fatal"}
            /\ play[q].hist = <<Ev("lookup", "miss")>>
            /\ play[q].resp = <<>>
            /\ play[q].cmd = NoCmd /\ ~Spawned(q)

C31_Witness ==
    \E v, t \in Plays :
        /\ play[v].kind = "video" /\ play[t].kind = "thumb"
        /\ \A q \in {v, t} :
              /\ Missed(q) /\ play[q].pc = "done"
              /\ play[q].id \notin DOMAIN Videos

\* C32: no step of a request handler changes an entry of Library.Videos:
\* the entries the catalog shares are written by the change-event loop
\* only, under its lock, and merging view counts leaves them as they are.
HandlerStep == \E q \in Plays : play'[q] # play[q]
C32_HandlersLeaveEntriesAlone ==
    [][HandlerStep => Videos' = Videos]_vars

\* C33: a video file that lies in a collection root once Run has scanned
\* that root is eventually in the catalog (unless it is removed again, or
\* Run returns an error and the server never serves): no file created
\* between the scan of a root and the attachment of its watch is missed.
Scanned(dir) ==
    /\ dir \in DOMAIN Library
    /\ ~(boot.pc = "import" /\ Entry(boot).Path = dir)
InCatalog(p) ==
    p.dir \in DOMAIN Library /\ VideoID(PrefixOf(p), p) \in DOMAIN Videos
C33_CreatedFilesReachCatalog ==
    \A p \in {MasterA, MasterB} :
        (Exists(fs, p) /\ Scanned(p.dir)) ~>
            (InCatalog(p) \/ ~Exists(fs, p) \/ boot.pc = "exit")

====
